---- MODULE Spec2Model ----
(***************************************************************************)
(* Model of src/inc/weibo_place_scraper.py: fetch_data runs main for the   *)
(* primary place, then main for every sub-region under asyncio.gather;     *)
(* each main launches one fetch_page per page, all gated by one shared     *)
(* asyncio.Semaphore, and drains them with asyncio.as_completed.           *)
(*                                                                         *)
(* asyncio is cooperative: a coroutine runs without interruption between   *)
(* two suspension points, so every action below is the code between two    *)
(* awaits that can suspend.                                                *)
(***************************************************************************)
EXTENDS Integers, Sequences, FiniteSets, TLC

\* ---- bounds of the model -------------------------------------------------
MaxConcurrent == 2      \* capacities 1..MaxConcurrent are explored
NumSubRegions == 2      \* len(all_places) in the model
NumPages == 2           \* num_pages of every query in the model
RecordsPerPage == 2     \* pois on a non-empty page
MaxAnomalies == 2       \* responses of a run that are not a non-empty page

Primary == 0
SubRegions == 1..NumSubRegions
Queries == {Primary} \cup SubRegions
Pages == 1..NumPages
Fetches == Queries \X Pages
None == "None"

VARIABLES
    max_concurrent,   \* fetch_data's parameter, the semaphore's capacity
    value,            \* semaphore._value
    waiters,          \* semaphore._waiters, FIFO of suspended fetches
    fpc,              \* position of every fetch_page coroutine
    result,           \* what a finished fetch_page returned or raised
    done_queue,       \* as_completed's queue of finished fetches, per query
    mpc,              \* position of every main coroutine
    total_num_pois,   \* main's local, per query
    completed_pages,  \* main's local, per query
    all_pois,         \* main's local, per query
    skipped_pages,    \* number of times main's except branch ran, per query
    drained,          \* pages whose result the loop has awaited, in order
    notices,          \* what main printed, per query
    sink,             \* the to_csv calls made, per query
    requests,         \* session.get calls made, per fetch
    acquires,         \* slots taken, per fetch
    releases,         \* slots given back, per fetch
    dpc,              \* position of fetch_data
    results,          \* gather's result list, per sub-region
    served,           \* what the remote side did for every fetch
    completion_order  \* pages in the order their fetches ended, per query

vars == <<max_concurrent, value, waiters, fpc, result, done_queue, mpc,
          total_num_pois, completed_pages, all_pois, skipped_pages, drained,
          notices, sink, requests, acquires, releases, dpc, results, served,
          completion_order>>

semVars == <<value, waiters, acquires, releases>>
fetchVars == <<fpc, result, done_queue, requests, served, completion_order>>
aggVars == <<total_num_pois, completed_pages, all_pois, skipped_pages,
             drained, notices>>

\* ---- values --------------------------------------------------------------
\* `none` says that pois_list is None; fetch_page returns a list on every path.
NoResult ==
    [kind |-> "none", none |-> FALSE, pois_list |-> <<>>, num_pois |-> 0, exc |-> ""]
Returned(pois, num) ==
    [kind |-> "return", none |-> FALSE, pois_list |-> pois, num_pois |-> num,
     exc |-> ""]
Raised(e) ==
    [kind |-> "raise", none |-> FALSE, pois_list |-> <<>>, num_pois |-> 0, exc |-> e]

\* The response bodies the remote side can send for page p of query q.
PoisBody(q, p) ==
    [name |-> "pois", json |-> TRUE, shape |-> TRUE,
     pois |-> [i \in 1..RecordsPerPage |-> <<q, p, i>>]]
EmptyBody == [name |-> "empty", json |-> TRUE, shape |-> TRUE, pois |-> <<>>]
MalformedBody ==
    [name |-> "malformed", json |-> TRUE, shape |-> FALSE, pois |-> <<>>]
NotJsonBody ==
    [name |-> "not_json", json |-> FALSE, shape |-> FALSE, pois |-> <<>>]
Bodies(q, p) == {PoisBody(q, p), EmptyBody, MalformedBody, NotJsonBody}

FaultNames == {"network_error", "not_json", "malformed"}
Anomalies == Cardinality({f \in Fetches : served[f] \notin {"nothing", "pois"}})

\* ---- asyncio.Semaphore ---------------------------------------------------
\* asyncio.Semaphore(max_concurrent): the initial _value.
InitialValuePerQuery(n) == n * NumSubRegions
InitialValue(n) == n

\* Semaphore.locked(): a waiter stays in _waiters until it has resumed.
locked == value = 0 \/ waiters # <<>>

\* Index in w of the first waiter whose future is not done yet, 0 if none.
FirstWaiting(w, pc) ==
    IF \E i \in 1..Len(w) : pc[w[i]] = "waiting"
    THEN CHOOSE i \in 1..Len(w) :
            /\ pc[w[i]] = "waiting"
            /\ \A j \in 1..(i - 1) : pc[w[j]] # "waiting"
    ELSE 0

RemoveWaiter(w, f) == SelectSeq(w, LAMBDA g : g # f)

WakeUpNextKeepsValue(v, w, pc) ==
    LET i == FirstWaiting(w, pc) IN
    IF i = 0
    THEN [value |-> v, fpc |-> pc, woken |-> {}]
    ELSE [value |-> v, fpc |-> [pc EXCEPT ![w[i]] = "woken"], woken |-> {w[i]}]

\* The semaphore after `_value = v` followed by _wake_up_next(), with the
\* waiters w and the coroutine positions pc: the first waiter that is not
\* done gets the slot (_value -= 1) and its future is resolved.
WakeUpNext(v, w, pc) ==
    LET i == FirstWaiting(w, pc) IN
    IF i = 0
    THEN [value |-> v, fpc |-> pc, woken |-> {}]
    ELSE [value |-> v - 1, fpc |-> [pc EXCEPT ![w[i]] = "woken"],
          woken |-> {w[i]}]

\* Leaving `async with semaphore` from fetch f, which ends with outcome r:
\* __aexit__ calls release() on the normal and on the exceptional path.
ExitSemaphoreReturnOnly(f, r) ==
    IF r.kind = "return"
    THEN LET s == WakeUpNext(value + 1, waiters, [fpc EXCEPT ![f] = "done"]) IN
         /\ value' = s.value
         /\ fpc' = s.fpc
         /\ acquires' = [g \in Fetches |->
                            IF g \in s.woken THEN acquires[g] + 1 ELSE acquires[g]]
         /\ releases' = [releases EXCEPT ![f] = @ + 1]
         /\ waiters' = waiters
    ELSE /\ fpc' = [fpc EXCEPT ![f] = "done"]
         /\ UNCHANGED <<value, acquires, releases, waiters>>

ExitSemaphore(f, r) ==
    LET s == WakeUpNext(value + 1, waiters, [fpc EXCEPT ![f] = "done"]) IN
    /\ value' = s.value
    /\ fpc' = s.fpc
    /\ acquires' = [g \in Fetches |->
                       IF g \in s.woken THEN acquires[g] + 1 ELSE acquires[g]]
    /\ releases' = [releases EXCEPT ![f] = @ + 1]
    /\ waiters' = waiters

IssueRequestWithRetry(f) == requests' = [requests EXCEPT ![f] = @ + 2]

\* session.get(url, headers=headers()): the request goes out.
IssueRequest(f) == requests' = [requests EXCEPT ![f] = @ + 1]

\* A fetch_page coroutine ends: its task is done and as_completed queues it.
FinishTwice(f, r) ==
    /\ result' = [result EXCEPT ![f] = r]
    /\ done_queue' = [done_queue EXCEPT ![f[1]] = Append(Append(@, f[2]), f[2])]
    /\ completion_order' = [completion_order EXCEPT ![f[1]] = Append(@, f[2])]

Finish(f, r) ==
    /\ result' = [result EXCEPT ![f] = r]
    /\ done_queue' = [done_queue EXCEPT ![f[1]] = Append(@, f[2])]
    /\ completion_order' = [completion_order EXCEPT ![f[1]] = Append(@, f[2])]

Init ==
    /\ max_concurrent \in 1..MaxConcurrent
    /\ value = InitialValue(max_concurrent)
    /\ waiters = <<>>
    /\ fpc = [f \in Fetches |-> "unborn"]
    /\ result = [f \in Fetches |-> NoResult]
    /\ done_queue = [q \in Queries |-> <<>>]
    /\ mpc = [q \in Queries |-> "unborn"]
    /\ total_num_pois = [q \in Queries |-> 0]
    /\ completed_pages = [q \in Queries |-> 0]
    /\ all_pois = [q \in Queries |-> <<>>]
    /\ skipped_pages = [q \in Queries |-> 0]
    /\ drained = [q \in Queries |-> <<>>]
    /\ notices = [q \in Queries |-> <<>>]
    /\ sink = [q \in Queries |-> <<>>]
    /\ requests = [f \in Fetches |-> 0]
    /\ acquires = [f \in Fetches |-> 0]
    /\ releases = [f \in Fetches |-> 0]
    /\ dpc = "start"
    /\ results = [q \in SubRegions |-> "pending"]
    /\ served = [f \in Fetches |-> "nothing"]
    /\ completion_order = [q \in Queries |-> <<>>]

\* ---- fetch_page ----------------------------------------------------------
\* What fetch_page does with a decoded-or-not response body (lines 68-90):
\* response.json() raises outside the try; inside the try a missing key is
\* caught and turned into ([], 0); otherwise the pois are copied and counted.
ParseBodyCountsOnce(body) ==
    IF ~body.json THEN Raised("ContentTypeError")
    ELSE IF ~body.shape THEN Returned(<<>>, 0)
    ELSE Returned(body.pois, IF body.pois = <<>> THEN 0 ELSE 1)

ParseBodyKeepsCount(body) ==
    IF ~body.json THEN Raised("ContentTypeError")
    ELSE IF ~body.shape THEN Returned(<<>>, 1)
    ELSE Returned(body.pois, Len(body.pois))

ParseBody(body) ==
    IF ~body.json THEN Raised("ContentTypeError")
    ELSE IF ~body.shape THEN Returned(<<>>, 0)
    ELSE Returned(body.pois, Len(body.pois))

\* First run of the task: `async with semaphore`, then session.get.
fetch_page_start(f) ==
    /\ fpc[f] = "scheduled"
    /\ IF ~locked
       THEN /\ value' = value - 1
            /\ acquires' = [acquires EXCEPT ![f] = @ + 1]
            /\ fpc' = [fpc EXCEPT ![f] = "requesting"]
            /\ IssueRequest(f)
            /\ UNCHANGED waiters
       ELSE /\ waiters' = Append(waiters, f)
            /\ fpc' = [fpc EXCEPT ![f] = "waiting"]
            /\ UNCHANGED <<value, acquires, requests>>
    /\ UNCHANGED <<max_concurrent, releases, result, done_queue, mpc, aggVars,
                   sink, dpc, results, served, completion_order>>

\* A woken waiter resumes inside acquire(): it leaves _waiters, passes a
\* spare slot on (`if self._value > 0: self._wake_up_next()`), and goes on
\* to session.get.
fetch_page_resume(f) ==
    /\ fpc[f] = "woken"
    /\ LET w == RemoveWaiter(waiters, f)
           pc == [fpc EXCEPT ![f] = "requesting"]
           s == IF value > 0 THEN WakeUpNext(value, w, pc)
                ELSE [value |-> value, fpc |-> pc, woken |-> {}]
       IN /\ waiters' = w
          /\ value' = s.value
          /\ fpc' = s.fpc
          /\ acquires' = [g \in Fetches |->
                             IF g \in s.woken THEN acquires[g] + 1 ELSE acquires[g]]
    /\ IssueRequest(f)
    /\ UNCHANGED <<max_concurrent, releases, result, done_queue, mpc, aggVars,
                   sink, dpc, results, served, completion_order>>

\* The request resolves. `await session.get(...)` and `await response.json()`
\* are passed with the slot held and touch nothing but locals, so they are
\* one step here: a network failure or a body that is no JSON is raised
\* outside the try and leaves fetch_page through both `async with`; any
\* other body is parsed and returned.
fetch_page_response(f) ==
    /\ fpc[f] = "requesting"
    /\ \/ /\ Anomalies < MaxAnomalies
          /\ served' = [served EXCEPT ![f] = "network_error"]
          /\ ExitSemaphore(f, Raised("ClientError"))
          /\ Finish(f, Raised("ClientError"))
       \/ \E body \in Bodies(f[1], f[2]) :
             /\ body.name # "pois" => Anomalies < MaxAnomalies
             /\ served' = [served EXCEPT ![f] = body.name]
             /\ ExitSemaphore(f, ParseBody(body))
             /\ Finish(f, ParseBody(body))
    /\ UNCHANGED <<max_concurrent, requests, mpc, aggVars, sink, dpc, results>>

\* ---- fetch_data / gather -------------------------------------------------
\* asyncio.gather(*tasks, return_exceptions=True)
ReturnExceptionsOff == FALSE
ReturnExceptions == TRUE

\* main(q) ends, by returning (ok) or by raising. The primary's main is
\* awaited directly by fetch_data, which goes on to launch the sub-region
\* queries or is left by the exception; a sub-region's main is a task of the
\* gather, which records its outcome.
MainEnds(q, ok) ==
    IF q = Primary
    THEN /\ mpc' = [r \in Queries |->
                       IF r = Primary THEN (IF ok THEN "returned" ELSE "failed")
                       ELSE IF ok THEN "scheduled" ELSE mpc[r]]
         /\ dpc' = IF ok THEN "gather" ELSE "raised"
         /\ UNCHANGED results
    ELSE /\ mpc' = [mpc EXCEPT ![q] = IF ok THEN "returned" ELSE "failed"]
         /\ results' = [results EXCEPT ![q] = IF ok THEN None ELSE "Exception"]
         /\ dpc' = IF ~ok /\ ~ReturnExceptions THEN "raised" ELSE dpc

\* gather's future resolves once every sub-region task is done.
fetch_data_done ==
    /\ dpc = "gather"
    /\ \A q \in SubRegions : results[q] # "pending"
    /\ dpc' = "done"
    /\ UNCHANGED <<max_concurrent, semVars, fetchVars, mpc, aggVars, sink, results>>

\* ---- main ----------------------------------------------------------------
\* `except Exception` around `await task_result` (lines 115-125).
CaughtOnlyDecode(r) == r.kind = "raise" /\ r.exc = "ContentTypeError"
Caught(r) == r.kind = "raise"

Progress(q, c, n) ==
    [type |-> "progress", site |-> q, completed |-> c, total |-> NumPages,
     count |-> n, exc |-> ""]
PageFailed(q, c) ==
    [type |-> "failed", site |-> q, completed |-> c, total |-> NumPages,
     count |-> 0, exc |-> ""]
ExceptionNotice(e) ==
    [type |-> "exception", site |-> None, completed |-> 0, total |-> 0,
     count |-> 0, exc |-> e]

\* When main(q) gets to run: the primary's is awaited first by fetch_data
\* (line 142); a sub-region's is a task that gather created after that await
\* returned (lines 145-146).
MayStartWithPrimary(q) ==
    \/ q = Primary /\ dpc = "start"
    \/ q \in SubRegions /\ mpc[q] \in {"unborn", "scheduled"}
                         /\ dpc \in {"primary", "gather"}
MayStart(q) ==
    \/ q = Primary /\ dpc = "start"
    \/ q \in SubRegions /\ mpc[q] = "scheduled" /\ dpc = "gather"

\* total_num_pois += num_pois and all_pois.extend(pois_list), on main's locals.
AddCountShared(q, n) == [r \in Queries |-> total_num_pois[r] + n]
AddCount(q, n) == [total_num_pois EXCEPT ![q] = @ + n]
ExtendShared(q, pois) == [r \in Queries |-> all_pois[r] \o pois]
Extend(q, pois) == [all_pois EXCEPT ![q] = @ \o pois]

\* Which entry of as_completed's queue the loop gets next: the oldest.
LowestPageIndex(queue) ==
    CHOOSE i \in 1..Len(queue) : \A j \in 1..Len(queue) : queue[i] <= queue[j]
NextIndex(queue) == 1
RemoveAt(queue, i) == SubSeq(queue, 1, i - 1) \o SubSeq(queue, i + 1, Len(queue))

\* main starts: the session is built (which may raise), the coroutines are
\* created and as_completed schedules them all, then main awaits the first.
main_start(q) ==
    /\ MayStart(q)
    /\ \/ /\ mpc' = [mpc EXCEPT ![q] = "draining"]
          /\ fpc' = [f \in Fetches |-> IF f[1] = q THEN "scheduled" ELSE fpc[f]]
          /\ dpc' = IF q = Primary THEN "primary" ELSE dpc
          /\ UNCHANGED results
       \/ /\ MainEnds(q, FALSE)
          /\ UNCHANGED fpc
    /\ UNCHANGED <<max_concurrent, semVars, result, done_queue, requests,
                   aggVars, sink, served, completion_order>>

\* One iteration of `for task_result in asyncio.as_completed(tasks)`: the
\* next finished fetch, in completion order, is awaited and accounted for.
\* time.sleep(1) stalls the whole event loop and changes no state.
main_drain(q) ==
    /\ mpc[q] = "draining"
    /\ done_queue[q] # <<>>
    /\ LET i == NextIndex(done_queue[q])
           p == done_queue[q][i]
           r == result[<<q, p>>]
       IN /\ done_queue' = [done_queue EXCEPT ![q] = RemoveAt(@, i)]
          /\ drained' = [drained EXCEPT ![q] = Append(@, p)]
          /\ IF r.kind = "return"
             THEN IF ~r.none
                  THEN /\ total_num_pois' = AddCount(q, r.num_pois)
                       /\ completed_pages' = [completed_pages EXCEPT ![q] = @ + 1]
                       /\ notices' = [notices EXCEPT ![q] =
                              Append(@, Progress(q, completed_pages[q] + 1,
                                                 total_num_pois[q] + r.num_pois))]
                       /\ all_pois' = Extend(q, r.pois_list)
                       /\ UNCHANGED <<skipped_pages, mpc, dpc, results>>
                  ELSE /\ notices' = [notices EXCEPT ![q] =
                              Append(@, PageFailed(q, completed_pages[q]))]
                       /\ UNCHANGED <<total_num_pois, completed_pages, all_pois,
                                      skipped_pages, mpc, dpc, results>>
             ELSE IF Caught(r)
                  THEN /\ skipped_pages' = [skipped_pages EXCEPT ![q] = @ + 1]
                       /\ notices' = [notices EXCEPT ![q] =
                              Append(@, ExceptionNotice(r.exc))]
                       /\ UNCHANGED <<total_num_pois, completed_pages, all_pois,
                                      mpc, dpc, results>>
                  ELSE /\ MainEnds(q, FALSE)
                       /\ UNCHANGED <<total_num_pois, completed_pages, all_pois,
                                      skipped_pages, notices>>
    /\ UNCHANGED <<max_concurrent, semVars, fpc, result, requests, sink, served,
                   completion_order>>

\* as_completed has yielded every one of the num_pages tasks.
LoopExhaustedOrEmptyPage(q) ==
    \/ Len(drained[q]) = NumPages
    \/ \E i \in 1..Len(drained[q]) :
          /\ result[<<q, drained[q][i]>>].kind = "return"
          /\ result[<<q, drained[q][i]>>].pois_list = <<>>
LoopExhaustedOneEarly(q) == Len(drained[q]) >= NumPages - 1
LoopExhausted(q) == Len(drained[q]) = NumPages

\* The loop is exhausted: the session is closed, then the DataFrame is
\* written with to_csv, which may raise.
main_finish(q) ==
    /\ mpc[q] = "draining"
    /\ LoopExhausted(q)
    /\ \/ /\ sink' = [sink EXCEPT ![q] = Append(@, all_pois[q])]
          /\ MainEnds(q, TRUE)
       \/ /\ MainEnds(q, FALSE)
          /\ UNCHANGED sink
    /\ UNCHANGED <<max_concurrent, semVars, fetchVars, aggVars>>

Next ==
    \/ \E f \in Fetches : fetch_page_start(f)
    \/ \E f \in Fetches : fetch_page_resume(f)
    \/ \E f \in Fetches : fetch_page_response(f)
    \/ \E q \in Queries : main_start(q)
    \/ \E q \in Queries : main_drain(q)
    \/ \E q \in Queries : main_finish(q)
    \/ fetch_data_done

Spec == Init /\ [][Next]_vars

\* The event loop runs a ready coroutine whenever there is one, and every
\* request that was sent resolves: the run does not stop while a step is
\* possible.
FairSpec == Spec /\ WF_vars(Next)

\* ---- properties ----------------------------------------------------------
Holding(f) == fpc[f] \in {"woken", "requesting"}
Holders == {f \in Fetches : Holding(f)}
PagesOf(q, names) == {p \in Pages : served[<<q, p>>] \in names}
Range(seq) == {seq[i] : i \in 1..Len(seq)}

\* C1: the fetches that hold a slot, counted over all queries of the batch,
\* never number more than the capacity max_concurrent.
C1_InFlightBounded == Cardinality(Holders) <= max_concurrent

\* Both slots of a capacity-2 limiter are held by fetches of two different
\* sub-region queries while a third fetch is suspended on acquire.
C1_Witness ==
    /\ max_concurrent = 2
    /\ \E f, g \in Holders : f[1] \in SubRegions /\ g[1] \in SubRegions /\ f[1] # g[1]
    /\ Cardinality(Holders) = 2
    /\ \E h \in Fetches : fpc[h] = "waiting"

\* C2: an iteration of the drain loop never ends main: whatever the awaited
\* fetch returned or raised, main stays in the loop with one more page drained.
C2_DrainAbsorbsFaults ==
    [][\A q \in Queries :
          drained'[q] # drained[q] =>
             /\ mpc'[q] = "draining"
             /\ Len(drained'[q]) = Len(drained[q]) + 1]_vars

\* A query has returned although every one of its pages raised, one with a
\* network failure and one with a decode failure.
C2_Witness ==
    \E q \in Queries :
       /\ mpc[q] = "returned"
       /\ \A p \in Pages : result[<<q, p>>].kind = "raise"
       /\ \E p \in Pages : served[<<q, p>>] = "network_error"
       /\ \E p \in Pages : served[<<q, p>>] = "not_json"

\* C3: when a query has drained all its pages, of which the set F failed
\* (network, decode or shape) and the others had RecordsPerPage records:
\* completed_pages = P - |F|, skipped = |F|, total = (P - |F|) * RecordsPerPage.
C3_FailedPagesSkipped ==
    \A q \in Queries :
       (/\ Len(drained[q]) = NumPages
        /\ \A p \in Pages : served[<<q, p>>] \in FaultNames \cup {"pois"})
       =>
       LET F == PagesOf(q, FaultNames) IN
       /\ completed_pages[q] = NumPages - Cardinality(F)
       /\ skipped_pages[q] = Cardinality(F)
       /\ total_num_pois[q] = (NumPages - Cardinality(F)) * RecordsPerPage

\* C4: the batch driver is never left by a sub-region query's exception, and
\* when it is done every sub-region query that did not itself raise has
\* drained all of its pages and made its one write to the sink.
C4_SubRegionIsolation ==
    /\ dpc = "raised" => mpc[Primary] = "failed"
    /\ dpc = "done" =>
          \A q \in SubRegions :
             /\ results[q] \in {None, "Exception"}
             /\ results[q] = "Exception" <=> mpc[q] = "failed"
             /\ results[q] = None =>
                   /\ mpc[q] = "returned"
                   /\ Range(drained[q]) = Pages
                   /\ Len(sink[q]) = 1

\* The batch is done, one sub-region query raised and another was written.
C4_Witness ==
    /\ dpc = "done"
    /\ \E q, r \in SubRegions :
          /\ results[q] = "Exception"
          /\ results[r] = None
          /\ Len(sink[r]) = 1
          /\ Len(drained[r]) = NumPages

\* C5: no query's failure, the primary's included, aborts the batch driver.
C5_NoQueryFaultAbortsBatch ==
    \A q \in Queries : mpc[q] = "failed" => dpc # "raised"

\* C6: a finished fetch_page has not raised, and after a network, decode or
\* shape failure its value differs from the empty end-of-data page result.
C6_FetchNeverRaises ==
    \A f \in Fetches :
       fpc[f] = "done" =>
          /\ result[f].kind # "raise"
          /\ served[f] \in FaultNames => result[f] # ParseBody(EmptyBody)

\* C7: a fetch releases only a slot it took, at most once; it holds exactly
\* one while it is admitted, and has given it back once it is done, however
\* it ended; with no fetch admitted the semaphore is back at its capacity.
C7_ReleasedExactlyOnce ==
    /\ \A f \in Fetches :
          /\ releases[f] <= acquires[f]
          /\ acquires[f] <= 1
          /\ Holding(f) => acquires[f] = 1 /\ releases[f] = 0
          /\ fpc[f] = "done" => acquires[f] = 1 /\ releases[f] = 1
          /\ fpc[f] \in {"unborn", "scheduled", "waiting"} => acquires[f] = 0
    /\ Holders = {} => value = max_concurrent

\* The batch is done, fetches ended by returning and by raising, and the
\* semaphore is back at its capacity.
C7_Witness ==
    /\ dpc = "done"
    /\ \E f \in Fetches : fpc[f] = "done" /\ result[f].kind = "raise"
    /\ \E f \in Fetches : fpc[f] = "done" /\ result[f].kind = "return"
    /\ \A f \in Fetches : fpc[f] \in {"unborn", "done"}
    /\ value = max_concurrent

\* C8: the semaphore's value is in 0..max_concurrent and equals max_concurrent
\* minus the number of fetches holding a slot.
C8_ValueInRange ==
    /\ value \in 0..max_concurrent
    /\ value = max_concurrent - Cardinality(Holders)

\* No slot is free and a woken waiter holds one that was handed to it.
C8_Witness ==
    /\ value = 0
    /\ \E f \in Fetches : fpc[f] = "woken"
    /\ \E f \in Fetches : fpc[f] = "waiting"

\* C9: a query that has drained all its pages, every one of them served with
\* RecordsPerPage records, has completed_pages = P, no skipped page,
\* total_num_pois = P * RecordsPerPage and that many records in all_pois.
C9_AllPagesSucceed ==
    \A q \in Queries :
       (/\ Len(drained[q]) = NumPages
        /\ \A p \in Pages : served[<<q, p>>] = "pois")
       =>
       /\ completed_pages[q] = NumPages
       /\ skipped_pages[q] = 0
       /\ total_num_pois[q] = NumPages * RecordsPerPage
       /\ Len(all_pois[q]) = NumPages * RecordsPerPage

\* A query whose pages all succeeded has returned, its last page having
\* completed first.
C9_Witness ==
    \E q \in Queries :
       /\ mpc[q] = "returned"
       /\ \A p \in Pages : served[<<q, p>>] = "pois"
       /\ drained[q][1] = NumPages

\* C10: a query that has left its loop with page j served empty and every
\* other page served with records has requested every page once and drained
\* every page; the empty page counts as completed with no record, and the
\* records of every other page are in all_pois.
C10_EmptyPageNoShortCircuit ==
    \A q \in Queries : \A j \in Pages :
       (/\ mpc[q] \in {"returned", "failed"}
        /\ served[<<q, j>>] = "empty"
        /\ \A p \in Pages \ {j} : served[<<q, p>>] = "pois")
       =>
       /\ \A p \in Pages : requests[<<q, p>>] = 1
       /\ Range(drained[q]) = Pages
       /\ completed_pages[q] = NumPages
       /\ skipped_pages[q] = 0
       /\ total_num_pois[q] = (NumPages - 1) * RecordsPerPage
       /\ \A p \in Pages \ {j} : \A i \in 1..RecordsPerPage :
             <<q, p, i>> \in Range(all_pois[q])
       /\ \A i \in 1..RecordsPerPage : <<q, j, i>> \notin Range(all_pois[q])

\* A query has returned whose empty page was drained first, before a page
\* with records.
C10_Witness ==
    \E q \in Queries : \E j \in Pages :
       /\ mpc[q] = "returned"
       /\ served[<<q, j>>] = "empty"
       /\ \A p \in Pages \ {j} : served[<<q, p>>] = "pois"
       /\ drained[q][1] = j
       /\ Len(all_pois[q]) = (NumPages - 1) * RecordsPerPage

\* C11: every query's aggregate, and every record list handed to the sink for
\* it, holds only records of that query's own pages; a step that changes a
\* query's aggregate or counters is an iteration of that query's own loop;
\* and a batch that is done with no query having raised has made exactly one
\* write per query, M+1 in all.
C11_NoCrossContamination ==
    /\ [](\A q \in Queries :
            /\ \A rec \in Range(all_pois[q]) : rec[1] = q
            /\ \A i \in 1..Len(sink[q]) : \A rec \in Range(sink[q][i]) : rec[1] = q
            /\ Len(sink[q]) <= 1)
    /\ []((dpc = "done" /\ \A q \in Queries : mpc[q] = "returned") =>
            \A q \in Queries : Len(sink[q]) = 1)
    /\ [][\A q \in Queries :
            (\/ all_pois'[q] # all_pois[q]
             \/ total_num_pois'[q] # total_num_pois[q]
             \/ completed_pages'[q] # completed_pages[q]
             \/ skipped_pages'[q] # skipped_pages[q])
            => Len(drained'[q]) = Len(drained[q]) + 1]_vars

\* The batch is done and every one of the M+1 queries has written all the
\* records of its own pages, and only those.
C11_Witness ==
    /\ dpc = "done"
    /\ \A q \in Queries :
          /\ Len(sink[q]) = 1
          /\ Range(sink[q][1]) = {<<q, p, i>> : p \in Pages, i \in 1..RecordsPerPage}

\* C12: as long as the primary's main has not drained all its pages and made
\* its write to the sink, no sub-region main has started and no fetch of a
\* sub-region has been scheduled, let alone taken a slot or sent a request.
C12_PrimaryFirst ==
    \A q \in SubRegions :
       (\/ mpc[q] # "unborn"
        \/ \E p \in Pages : \/ fpc[<<q, p>>] # "unborn"
                            \/ acquires[<<q, p>>] > 0
                            \/ requests[<<q, p>>] > 0)
       =>
       /\ mpc[Primary] = "returned"
       /\ Range(drained[Primary]) = Pages
       /\ \A p \in Pages : fpc[<<Primary, p>>] = "done"
       /\ Len(sink[Primary]) = 1

\* A sub-region fetch holds a slot, after the primary was written.
C12_Witness ==
    /\ \E q \in SubRegions : \E p \in Pages : Holding(<<q, p>>)
    /\ Len(sink[Primary]) = 1

\* C13: a query is written to the sink at most once, and the step that writes
\* it starts with every one of its fetches ended and drained: none scheduled,
\* waiting, admitted or in flight, and nothing left in as_completed's queue.
C13_FinalizedAfterAllPages ==
    [][\A q \in Queries :
          sink'[q] # sink[q] =>
             /\ sink[q] = <<>>
             /\ Len(sink'[q]) = 1
             /\ \A p \in Pages : fpc[<<q, p>>] = "done"
             /\ Range(drained[q]) = Pages
             /\ Len(drained[q]) = NumPages
             /\ done_queue[q] = <<>>]_vars

\* A sub-region query was written after a page of it was skipped while
\* another query still has a fetch under way.
C13_Witness ==
    \E q \in SubRegions :
       /\ Len(sink[q]) = 1
       /\ skipped_pages[q] = 1
       /\ \E f \in Fetches : fpc[f] \in {"waiting", "woken", "requesting"}

\* The run is over: fetch_data has ended, no fetch is waiting for a slot,
\* admitted or in flight, and every main that started has ended.
Terminated ==
    /\ dpc \in {"done", "raised"}
    /\ \A f \in Fetches : fpc[f] \in {"unborn", "done"}
    /\ \A q \in Queries : mpc[q] \in {"unborn", "returned", "failed"}
    /\ waiters = <<>>

NoDuplicates(seq) == \A i, j \in 1..Len(seq) : seq[i] = seq[j] => i = j

\* C15: in every query completed_pages + skipped_pages is the number of
\* results drained so far and at most num_pages; no page is drained twice and
\* no record is in all_pois twice; a main that has left its loop has
\* completed_pages + skipped_pages = num_pages.
C15_ConsumedExactlyOnce ==
    \A q \in Queries :
       /\ completed_pages[q] + skipped_pages[q] = Len(drained[q])
       /\ Len(drained[q]) <= NumPages
       /\ NoDuplicates(drained[q])
       /\ NoDuplicates(all_pois[q])
       /\ (sink[q] # <<>> \/ (mpc[q] \in {"returned", "failed"} /\ drained[q] # <<>>))
             => completed_pages[q] + skipped_pages[q] = NumPages

\* A query has returned with one page completed and one page skipped.
C15_Witness ==
    \E q \in Queries :
       /\ mpc[q] = "returned"
       /\ completed_pages[q] = NumPages - 1
       /\ skipped_pages[q] = 1
       /\ Len(all_pois[q]) = (NumPages - 1) * RecordsPerPage

ProgressNotices(q) == SelectSeq(notices[q], LAMBDA n : n.type = "progress")

\* C16: a query has printed one notice per drained page, the i-th for the
\* i-th page drained: a progress notice (query, completed pages, total pages,
\* cumulative count) if that page succeeded or was empty, a skip notice if it
\* failed (network, decode or shape); the completed-page numbers of the
\* successive progress notices are 1, 2, ... and their counts never decrease.
C16_OneNoticePerPage ==
    \A q \in Queries :
       /\ Len(notices[q]) = Len(drained[q])
       /\ \A i \in 1..Len(notices[q]) :
             LET kind == served[<<q, drained[q][i]>>] IN
             /\ kind \in {"pois", "empty"} =>
                   /\ notices[q][i].type = "progress"
                   /\ notices[q][i].site = q
                   /\ notices[q][i].total = NumPages
             /\ kind \in FaultNames => notices[q][i].type # "progress"
       /\ \A i \in 1..Len(ProgressNotices(q)) :
             /\ ProgressNotices(q)[i].completed = i
             /\ i > 1 => ProgressNotices(q)[i].count >= ProgressNotices(q)[i - 1].count

\* The records the remote side served for the pages of seq, page after page.
RECURSIVE ServedRecords(_, _)
ServedRecords(q, seq) ==
    IF seq = <<>> THEN <<>>
    ELSE (IF served[<<q, Head(seq)>>] = "pois"
          THEN PoisBody(q, Head(seq)).pois ELSE <<>>)
         \o ServedRecords(q, Tail(seq))

\* C17: the pages a query has drained are the first of its pages in the
\* order in which their fetches ended, and all_pois is the concatenation of
\* the records of those pages in that order, each page's records together and
\* in their order within the page.
C17_CompletionOrder ==
    \A q \in Queries :
       /\ Len(drained[q]) <= Len(completion_order[q])
       /\ drained[q] = SubSeq(completion_order[q], 1, Len(drained[q]))
       /\ all_pois[q] = ServedRecords(q, drained[q])

\* A query has returned whose last page ended first: its records come first.
C17_Witness ==
    \E q \in Queries :
       /\ mpc[q] = "returned"
       /\ completion_order[q][1] = NumPages
       /\ \A p \in Pages : served[<<q, p>>] = "pois"
       /\ all_pois[q][1] = <<q, NumPages, 1>>
       /\ all_pois[q][Len(all_pois[q])][2] # NumPages

\* C18: requests are counted per page of 1..num_pages of each query and for
\* nothing else; no page is requested twice, a page has been requested
\* exactly when its fetch is in flight or has ended, so a query that drained
\* all its pages requested each exactly once; and the step that sends a
\* request leaves its fetch holding a slot it has taken and not given back.
C18_OneRequestPerPage ==
    /\ [](/\ DOMAIN requests = Queries \X (1..NumPages)
          /\ \A f \in Fetches :
                /\ requests[f] <= 1
                /\ requests[f] = 1 <=> fpc[f] \in {"requesting", "done"}
          /\ \A q \in Queries :
                Len(drained[q]) = NumPages =>
                   \A p \in Pages : requests[<<q, p>>] = 1)
    /\ [][\A f \in Fetches :
            requests'[f] # requests[f] =>
               /\ requests'[f] = requests[f] + 1
               /\ fpc'[f] = "requesting"
               /\ acquires'[f] = 1
               /\ releases'[f] = 0
               /\ value' = max_concurrent - Cardinality({g \in Fetches :
                                 fpc'[g] \in {"woken", "requesting"}})]_vars

\* A query has returned after a page of it failed: every page was requested
\* once, the failed one too.
C18_Witness ==
    \E q \in Queries :
       /\ mpc[q] = "returned"
       /\ \E p \in Pages : result[<<q, p>>].kind = "raise"
       /\ \A p \in Pages : requests[<<q, p>>] = 1

\* C19: a step in which a fetch moves (is scheduled, waits, is admitted,
\* sends its request, ends and releases) leaves every query's all_pois,
\* total_num_pois and completed_pages as they are; a step that changes one of
\* them for a query is an iteration of that query's own loop, taking the
\* oldest entry of its queue.
C19_SingleWriter ==
    [][/\ (\/ fpc' # fpc
           \/ result' # result
           \/ requests' # requests
           \/ <<value, waiters, acquires, releases>>' #
                 <<value, waiters, acquires, releases>>)
          => UNCHANGED <<all_pois, total_num_pois, completed_pages>>
       /\ \A q \in Queries :
             (\/ all_pois'[q] # all_pois[q]
              \/ total_num_pois'[q] # total_num_pois[q]
              \/ completed_pages'[q] # completed_pages[q])
             =>
             /\ mpc[q] = "draining"
             /\ done_queue[q] # <<>>
             /\ drained'[q] = Append(drained[q], Head(done_queue[q]))
             /\ done_queue'[q] = Tail(done_queue[q])]_vars

\* A fetch has ended with records and is not drained yet: the aggregate of
\* its query still holds the records of the page drained before it only.
C19_Witness ==
    \E q \in Queries : \E p \in Pages :
       /\ done_queue[q] = <<p>>
       /\ result[<<q, p>>].num_pois = RecordsPerPage
       /\ Len(drained[q]) = 1
       /\ Len(all_pois[q]) = RecordsPerPage
       /\ total_num_pois[q] = RecordsPerPage
       /\ completed_pages[q] = 1

\* C20: in every query total_num_pois is the number of records in all_pois,
\* after every iteration of the loop and when the query is written; the list
\* handed to the sink has that many records.
C20_CountMatchesList ==
    \A q \in Queries :
       /\ total_num_pois[q] = Len(all_pois[q])
       /\ \A i \in 1..Len(sink[q]) : Len(sink[q][i]) = total_num_pois[q]

\* A query was written after one page with records and one shape failure.
C20_Witness ==
    \E q \in Queries :
       /\ Len(sink[q]) = 1
       /\ \E p \in Pages : served[<<q, p>>] = "malformed"
       /\ \E p \in Pages : served[<<q, p>>] = "pois"
       /\ total_num_pois[q] = RecordsPerPage

====
